---- MODULE Spec2Model ----
(***************************************************************************)
(* Model of ryu/ofproto/novi_actions.py: the NoviFlow experimenter-action  *)
(* codecs that generate(ofp_name, ofpp_name) builds and installs on an     *)
(* OpenFlow parser module.                                                 *)
(*                                                                         *)
(* Bytes are integers 0..255, a bytearray is a sequence of bytes, a Python *)
(* object is a record of its attributes, and an operation that can raise   *)
(* returns Ok(value) or Err(exception name).                               *)
(***************************************************************************)
EXTENDS Integers, Sequences, FiniteSets, TLC

VARIABLES
    ofpp,      \* context -> the attributes add_attr installed on it (name -> class)
    subtypes,  \* class generation -> NoviAction._subtypes of that generation (a dict)
    ngen,      \* number of generate() calls made so far
    last,      \* the last Binder / register call and how it ended
    act,       \* the action object under construction / serialization
    nmut,      \* how many times the caller changed act.fields after construction
    wire,      \* bytes handed to / produced by the codecs (Ok(bytes) or Err)
    res,       \* what NoviAction.parse returned for wire (Ok(object) or Err)
    out,       \* what serialize_body of the parsed object returned
    arg,       \* the (buf, offset) the caller gave to serialize
    buf,       \* the caller's buffer after serialize
    pc         \* position of the driver

vars == <<ofpp, subtypes, ngen, last, act, nmut, wire, res, out, arg, buf, pc>>

binderVars == <<ofpp, subtypes, ngen, last>>
codecVars == <<act, nmut, wire, res, out, arg, buf>>

(***************************************************************************)
(* Bounds of the model                                                     *)
(***************************************************************************)
MaxGenerate == 3    \* generate() calls in one run
MaxRegister == 2    \* direct NoviAction.register calls in one run
MaxFields == 3      \* length of the short field lists
MaxMutations == 2   \* changes of act.fields after construction
MaxRest == 5        \* bytes after the vendor header in the raw inputs
MaxBuf == 9         \* length of the caller's buffer given to serialize

(***************************************************************************)
(* Python values                                                           *)
(***************************************************************************)
Ok(v) == [kind |-> "ok", val |-> v]
Err(e) == [kind |-> "error", val |-> e]
IsOk(r) == r.kind = "ok"
IsErr(r) == r.kind = "error"

NoneVal == [kind |-> "None", val |-> "None"]

\* self.<k> = v for every k of rec
SetAttrs(self, rec) == rec @@ self

Min(a, b) == IF a < b THEN a ELSE b

\* buf[a:b] with 0 <= a <= b: slicing never raises, it clamps
Slice(b, lo, hi) == SubSeq(b, lo + 1, Min(hi, Len(b)))

Pow256(w) == IF w = 0 THEN 1 ELSE IF w = 1 THEN 256 ELSE IF w = 2 THEN 65536 ELSE 16777216

\* n.to_bytes(w, 'big'), for 0 <= n < 256^w (w <= 4)
ToBytes(n, w) == [i \in 1..w |-> (n \div Pow256(w - i)) % 256]

\* int.from_bytes(b, byteorder='big'); the empty string gives 0
RECURSIVE FromBytes(_)
FromBytes(b) ==
    IF b = <<>> THEN 0
    ELSE FromBytes(SubSeq(b, 1, Len(b) - 1)) * 256 + b[Len(b)]

Zeros(n) == [i \in 1..n |-> 0]

(***************************************************************************)
(* The classes generate() defines, and the one they extend                 *)
(***************************************************************************)
Contexts == {"ofproto_v1_3_parser", "ofproto_v1_4_parser"}

\* codec classes a caller may hand to NoviAction.register besides the generated ones
CallerCodecs == {"CallerCodecA", "CallerCodecB", "CallerCodecC"}

\* the attributes each class statement binds in its own body
ClassAttrs(name) ==
    CASE name = "OFPActionExperimenter" -> {}
      [] name = "NoviAction" ->
            {"_fmt_str", "_subtypes", "_experimenter", "customer", "reserved"}
      [] name = "NoviActionUnknown" -> {}
      [] name = "NoviActionPushVxlan" ->
            {"_fmt_str", "NOVI_ACTION_PUSH_TUNNEL", "_subtype",
             "NOVI_TUNNEL_TYPE_VXLAN", "TUNNEL_DATA_PRESENT"}
      [] name = "NoviActionHashFieldsSym" ->
            {"NOVI_ACTION_HASH_FIELDS_SYM", "_subtype"}
      [] OTHER -> {"_subtype"}

\* the method resolution order of a class
Bases(name) ==
    IF name = "OFPActionExperimenter" THEN <<"OFPActionExperimenter">>
    ELSE IF name = "NoviAction" THEN <<"NoviAction", "OFPActionExperimenter">>
    ELSE <<name, "NoviAction", "OFPActionExperimenter">>

\* hasattr(cls, attr): some class of the resolution order binds it
ClassHasAttr(name, attr) ==
    \E i \in 1..Len(Bases(name)) : attr \in ClassAttrs(Bases(name)[i])

customer == 255
reserved == 0
NOVI_ACTION_PUSH_TUNNEL == 2
NOVI_TUNNEL_TYPE_VXLAN == 0
TUNNEL_DATA_PRESENT == 1
NOVI_ACTION_HASH_FIELDS_SYM == 7

\* cls._subtype of a class that has one
ClassSubtype(name) ==
    CASE name = "NoviActionPushVxlan" -> NOVI_ACTION_PUSH_TUNNEL
      [] name = "NoviActionHashFieldsSym" -> NOVI_ACTION_HASH_FIELDS_SYM
      [] name = "CallerCodecA" -> 2
      [] name = "CallerCodecB" -> 7
      [] name = "CallerCodecC" -> 9

\* a class object: the class statement `name` as executed by the gen-th generate call
\* (gen 0: defined by the caller, outside generate)
Class(name, gen) == [name |-> name, gen |-> gen]

(***************************************************************************)
(* dict                                                                    *)
(***************************************************************************)
EmptyDict == [k \in {} |-> 0]
DictGet(d, k) == IF k \in DOMAIN d THEN Ok(d[k]) ELSE NoneVal
DictSet(d, k, v) == [x \in (DOMAIN d) \cup {k} |-> IF x = k THEN v ELSE d[x]]

\* Python values as far as `is` tells them apart: an int, or the dict of a generation
IntObj(n) == [type |-> "int", id |-> n]
DictObj(g) == [type |-> "dict", id |-> g]
PyIs(a, b) == a.type = b.type /\ a.id = b.id

(***************************************************************************)
(* NoviAction.register and generate                                        *)
(***************************************************************************)
\* NoviAction.register(subtype_cls) on the NoviAction of generation g, whose
\* _subtypes is d: the dict after the call, or the AssertionError
NoviAction_register(d, g, subtype_cls) ==
    LET asserted == ~PyIs(IntObj(ClassSubtype(subtype_cls.name)), DictObj(g))
    IN  IF ~asserted THEN Err("AssertionError")
        ELSE Ok(DictSet(d, ClassSubtype(subtype_cls.name), subtype_cls))

\* setattr(ofpp, k, v)
add_attr(attrs, k, v) == DictSet(attrs, k, v)

\* the register loop of generate over classes[i..], on _subtypes d
RECURSIVE RegisterLoop(_, _, _, _, _)
RegisterLoop(attrs, d, g, classes, i) ==
    IF i > Len(classes) THEN Ok([attrs |-> attrs, d |-> d])
    ELSE LET cls == Class(classes[i], g)
             r == NoviAction_register(d, g, cls)
         IN  IF IsErr(r) THEN r
             ELSE RegisterLoop(add_attr(attrs, classes[i], cls), r.val, g, classes, i + 1)

\* generate(ofp_name, ofpp_name) as its g-th call, on a context whose attributes
\* are attrs: the attributes after the call and the _subtypes of the new NoviAction
generate(attrs, g) ==
    LET a1 == add_attr(attrs, "NoviAction", Class("NoviAction", g))
        a2 == add_attr(a1, "NoviUnknown", Class("NoviActionUnknown", g))
    IN  RegisterLoop(a2, EmptyDict, g, <<"NoviActionPushVxlan", "NoviActionHashFieldsSym">>, 1)

\* the registry the classes installed on context c dispatch through
Registry(c) == subtypes[ofpp[c]["NoviAction"].gen]
Bound(c) == "NoviAction" \in DOMAIN ofpp[c]

\* ---- Binder actions ----
Generate(c) ==
    /\ ngen < MaxGenerate
    /\ LET g == ngen + 1
           r == generate(ofpp[c], g)
       IN  /\ ngen' = g
           /\ IF IsOk(r)
              THEN /\ ofpp' = [ofpp EXCEPT ![c] = r.val.attrs]
                   /\ subtypes' = DictSet(subtypes, g, r.val.d)
              ELSE UNCHANGED <<ofpp, subtypes>>
           /\ last' = [op |-> "generate", ctx |-> c, cls |-> Class("NoviAction", g),
                       n |-> last.n, failed |-> IsErr(r)]
    /\ UNCHANGED <<codecVars, pc>>

\* ofpp.NoviAction.register(cls) called directly on a bound context
Register(c, cls) ==
    /\ Bound(c)
    /\ last.n < MaxRegister
    /\ LET g == ofpp[c]["NoviAction"].gen
           r == NoviAction_register(subtypes[g], g, cls)
       IN  /\ subtypes' = IF IsOk(r) THEN DictSet(subtypes, g, r.val) ELSE subtypes
           /\ last' = [op |-> "register", ctx |-> c, cls |-> cls,
                       n |-> last.n + 1, failed |-> IsErr(r)]
    /\ UNCHANGED <<ofpp, ngen, codecVars, pc>>

\* the codec classes a caller can register on context c
Registrable(c) ==
    {Class(n, 0) : n \in CallerCodecs}
        \cup {ofpp[c][k] : k \in (DOMAIN ofpp[c]) \ {"NoviAction", "NoviUnknown"}}

NoObject == [cls |-> "none"]
NoArg == [buf |-> <<>>, offset |-> 0]

CodecIdle ==
    /\ act = NoObject /\ nmut = 0 /\ wire = NoneVal /\ res = NoneVal
    /\ out = NoneVal /\ arg = NoArg /\ buf = NoneVal

InitBind ==
    /\ ofpp = [c \in Contexts |-> EmptyDict]
    /\ subtypes = EmptyDict
    /\ ngen = 0
    /\ last = [op |-> "none", ctx |-> "none", cls |-> Class("none", 0), n |-> 0,
               failed |-> FALSE]
    /\ CodecIdle
    /\ pc = "bind"

NextBind ==
    \/ \E c \in Contexts : Generate(c)
    \/ \E c \in Contexts : \E cls \in Registrable(c) : Register(c, cls)

SpecBind == InitBind /\ [][NextBind]_vars

(***************************************************************************)
(* The collaborators of the codecs: ryu.utils, ryu.lib.type_desc and the   *)
(* experimenter action of the parser module                                *)
(***************************************************************************)
\* utils.round_up(x, y)
round_up(x, y) == ((x + y - 1) \div y) * y

\* A MAC address in text form is its 12 hex digits, an IPv4 address in text
\* form the decimal digits of its four numbers.
MacAddr_from_user(u) == [i \in 1..6 |-> u[2 * i - 1] * 16 + u[2 * i]]
MacAddr_to_user(b) ==
    IF Len(b) # 6 THEN Err("ValueError")
    ELSE Ok([i \in 1..12 |-> IF i % 2 = 1 THEN b[(i + 1) \div 2] \div 16
                                           ELSE b[i \div 2] % 16])

RECURSIVE FromDigits(_)
FromDigits(ds) ==
    IF ds = <<>> THEN 0 ELSE FromDigits(SubSeq(ds, 1, Len(ds) - 1)) * 10 + ds[Len(ds)]
ToDigits(n) ==
    IF n < 10 THEN <<n>>
    ELSE IF n < 100 THEN <<n \div 10, n % 10>>
    ELSE <<n \div 100, (n \div 10) % 10, n % 10>>

IPv4Addr_from_user(u) == [i \in 1..4 |-> FromDigits(u[i])]
IPv4Addr_to_user(b) ==
    IF Len(b) # 4 THEN Err("ValueError") ELSE Ok([i \in 1..4 |-> ToDigits(b[i])])

OFPAT_EXPERIMENTER == 65535
\* ofproto_common.NOVI_EXPERIMENTER_ID, as the four bytes '!I' packs it to
NOVI_EXPERIMENTER_ID == <<255, 0, 0, 2>>
\* struct.calcsize of the experimenter action header, '!HHI'
OFP_ACTION_EXPERIMENTER_HEADER_SIZE == 8

\* OFPActionExperimenter.__init__(self, experimenter)
OFPActionExperimenter_init(self, experimenter) ==
    SetAttrs(self, [type |-> OFPAT_EXPERIMENTER, experimenter |-> experimenter,
                    len |-> NoneVal])

\* OFPActionExperimenter.serialize(buf, offset): msg_pack_into grows buf with
\* zeros up to the end of the header and packs type, len, experimenter at offset
OFPActionExperimenter_serialize(self, b, offset) ==
    LET needed == offset + OFP_ACTION_EXPERIMENTER_HEADER_SIZE
        grown == IF needed > Len(b) THEN b \o Zeros(needed - Len(b)) ELSE b
        hdr == ToBytes(self.type, 2) \o ToBytes(self.len, 2) \o self.experimenter
    IN  [i \in 1..Len(grown) |->
            IF i > offset /\ i <= needed THEN hdr[i - offset] ELSE grown[i]]

(***************************************************************************)
(* Construction                                                            *)
(***************************************************************************)
\* NoviAction.__init__: self.subtype = self._subtype looks _subtype up on the
\* instance and then on its class
NoviAction_init(self) ==
    LET s == OFPActionExperimenter_init(self, NOVI_EXPERIMENTER_ID)
    IN  IF "_subtype" \in DOMAIN s THEN Ok(SetAttrs(s, [subtype |-> s["_subtype"]]))
        ELSE IF ClassHasAttr(s.cls, "_subtype")
             THEN Ok(SetAttrs(s, [subtype |-> ClassSubtype(s.cls)]))
             ELSE Err("AttributeError")

\* NoviActionUnknown(novi_action_type, data)
NoviActionUnknown_init(novi_action_type, data) ==
    LET self == [cls |-> "NoviActionUnknown", novi_action_type |-> novi_action_type]
        r == NoviAction_init(self)
    IN  IF IsErr(r) THEN r ELSE Ok(SetAttrs(r.val, [data |-> data]))

\* NoviActionPushVxlan(eth_src, eth_dst, ipv4_src, ipv4_dst, udp_src, vni)
NoviActionPushVxlan_init(eth_src, eth_dst, ipv4_src, ipv4_dst, udp_src, vni) ==
    LET r == NoviAction_init([cls |-> "NoviActionPushVxlan"])
    IN  IF IsErr(r) THEN r
        ELSE Ok(SetAttrs(r.val, [eth_src |-> eth_src, eth_dst |-> eth_dst,
                                 ipv4_src |-> ipv4_src, ipv4_dst |-> ipv4_dst,
                                 udp_src |-> udp_src, vni |-> vni, len |-> 40]))

\* NoviActionHashFieldsSym(fields) rounding len up to a multiple of 4 instead of 8
NoviActionHashFieldsSym_init_round4(fields) ==
    LET r == NoviAction_init([cls |-> "NoviActionHashFieldsSym"])
        len0 == 13 + Len(fields) * 4
        pad_len == round_up(len0, 4) - len0
    IN  IF IsErr(r) THEN r
        ELSE Ok(SetAttrs(r.val, [fields |-> fields, pad_len |-> pad_len,
                                 len |-> len0 + pad_len]))

\* NoviActionHashFieldsSym(fields)
NoviActionHashFieldsSym_init(fields) ==
    LET r == NoviAction_init([cls |-> "NoviActionHashFieldsSym"])
        len0 == 13 + Len(fields) * 4
        pad_len == round_up(len0, 8) - len0
    IN  IF IsErr(r) THEN r
        ELSE Ok(SetAttrs(r.val, [fields |-> fields, pad_len |-> pad_len,
                                 len |-> len0 + pad_len]))

(***************************************************************************)
(* serialize_body                                                          *)
(***************************************************************************)
\* n.to_bytes(w, 'big') raises OverflowError when n needs more than w bytes
Fits(n, w) == w >= 4 \/ n < Pow256(w)

NoviActionUnknown_serialize_body(self) ==
    IF self.data.kind = "None" THEN Ok(<<>>) ELSE Ok(self.data.val)

\* NoviActionPushVxlan.serialize_body leaving out the flags byte
NoviActionPushVxlan_serialize_body_noFlags(self) ==
    IF ~Fits(self.udp_src, 2) THEN Err("OverflowError")
    ELSE Ok(ToBytes(customer, 1) \o ToBytes(reserved, 1)
            \o ToBytes(NOVI_ACTION_PUSH_TUNNEL, 2)
            \o ToBytes(NOVI_TUNNEL_TYPE_VXLAN, 1)
            \o MacAddr_from_user(self.eth_src)
            \o MacAddr_from_user(self.eth_dst)
            \o IPv4Addr_from_user(self.ipv4_src)
            \o IPv4Addr_from_user(self.ipv4_dst)
            \o ToBytes(self.udp_src, 2)
            \o ToBytes(self.vni, 4))

NoviActionPushVxlan_serialize_body(self) ==
    IF ~Fits(self.udp_src, 2) THEN Err("OverflowError")
    ELSE Ok(ToBytes(customer, 1) \o ToBytes(reserved, 1)
            \o ToBytes(NOVI_ACTION_PUSH_TUNNEL, 2)
            \o ToBytes(NOVI_TUNNEL_TYPE_VXLAN, 1)
            \o ToBytes(TUNNEL_DATA_PRESENT, 1)
            \o MacAddr_from_user(self.eth_src)
            \o MacAddr_from_user(self.eth_dst)
            \o IPv4Addr_from_user(self.ipv4_src)
            \o IPv4Addr_from_user(self.ipv4_dst)
            \o ToBytes(self.udp_src, 2)
            \o ToBytes(self.vni, 4))

\* the loop `for field in self.fields: data += field.to_bytes(4, 'big')`
FieldBytes(fields) ==
    [j \in 1..(4 * Len(fields)) |-> ToBytes(fields[((j - 1) \div 4) + 1], 4)[((j - 1) % 4) + 1]]

NoviActionHashFieldsSym_serialize_body(self) ==
    IF ~Fits(Len(self.fields), 1) THEN Err("OverflowError")
    ELSE Ok(ToBytes(customer, 1) \o ToBytes(reserved, 1)
            \o ToBytes(NOVI_ACTION_HASH_FIELDS_SYM, 2)
            \o ToBytes(Len(self.fields), 1)
            \o FieldBytes(self.fields)
            \o Zeros(self.pad_len))

\* self.serialize_body(), by the class of self
serialize_body(self) ==
    CASE self.cls = "NoviActionUnknown" -> NoviActionUnknown_serialize_body(self)
      [] self.cls = "NoviActionPushVxlan" -> NoviActionPushVxlan_serialize_body(self)
      [] self.cls = "NoviActionHashFieldsSym" -> NoviActionHashFieldsSym_serialize_body(self)

\* NoviAction.serialize(buf, offset): the caller's buffer after the call
NoviAction_serialize(self, b, offset) ==
    LET data == serialize_body(self)
    IN  IF IsErr(data) THEN data
        ELSE Ok(OFPActionExperimenter_serialize(self, b, offset) \o data.val)

(***************************************************************************)
(* parse                                                                   *)
(***************************************************************************)
NoviActionPushVxlan_parser(b) ==
    IF Len(b) < 2 THEN Err("IndexError")
    ELSE LET tunnel_type == b[1]
             flags == b[2]
             eth_src == MacAddr_to_user(Slice(b, 2, 8))
             eth_dst == MacAddr_to_user(Slice(b, 8, 14))
             ipv4_src == IPv4Addr_to_user(Slice(b, 14, 18))
             ipv4_dst == IPv4Addr_to_user(Slice(b, 18, 22))
             udp_src == FromBytes(Slice(b, 22, 24))
             vni == FromBytes(Slice(b, 24, 28))
         IN  IF IsErr(eth_src) THEN eth_src
             ELSE IF IsErr(eth_dst) THEN eth_dst
             ELSE IF IsErr(ipv4_src) THEN ipv4_src
             ELSE IF IsErr(ipv4_dst) THEN ipv4_dst
             ELSE NoviActionPushVxlan_init(eth_src.val, eth_dst.val, ipv4_src.val,
                                           ipv4_dst.val, udp_src, vni)

\* NoviActionHashFieldsSym.parser reading the fields from the count byte on
NoviActionHashFieldsSym_parser_noCountByte(b) ==
    IF Len(b) < 1 THEN Err("IndexError")
    ELSE LET count == b[1]
             fields == [i \in 1..count |->
                           LET offset == (i - 1) * 4
                           IN  FromBytes(Slice(b, offset, offset + 4))]
         IN  NoviActionHashFieldsSym_init(fields)

NoviActionHashFieldsSym_parser(b) ==
    IF Len(b) < 1 THEN Err("IndexError")
    ELSE LET count == b[1]
             fields == [i \in 1..count |->
                           LET offset == 1 + (i - 1) * 4
                           IN  FromBytes(Slice(b, offset, offset + 4))]
         IN  NoviActionHashFieldsSym_init(fields)

\* subtype_cls.parser(rest)
ClassParser(subtype_cls, rest) ==
    CASE subtype_cls.name = "NoviActionPushVxlan" -> NoviActionPushVxlan_parser(rest)
      [] subtype_cls.name = "NoviActionHashFieldsSym" -> NoviActionHashFieldsSym_parser(rest)

\* NoviAction.parse(buf), dispatching through the dict reg
NoviAction_parse(reg, b) ==
    IF Len(b) < 4 THEN Err("struct.error")
    ELSE LET novi_action_type == FromBytes(Slice(b, 2, 4))
             subtype_cls == DictGet(reg, novi_action_type)
             rest == Slice(b, 4, Len(b))
         IN  IF subtype_cls.kind = "None"
             THEN NoviActionUnknown_init(novi_action_type, Ok(rest))
             ELSE ClassParser(subtype_cls.val, rest)

(***************************************************************************)
(* The codecs at work on a context bound by one generate call              *)
(***************************************************************************)
TestContext == "ofproto_v1_3_parser"

SeqsUpTo(S, n) == UNION {[1..k -> S] : k \in 0..n}

\* aa:bb:cc:dd:ee:ff and 11:22:33:44:55:66
MacAddrs == {<<10, 10, 11, 11, 12, 12, 13, 13, 14, 14, 15, 15>>,
             <<1, 1, 2, 2, 3, 3, 4, 4, 5, 5, 6, 6>>}
\* 10.0.0.1 and 192.168.255.2
IPv4Addrs == {<<<<1, 0>>, <<0>>, <<0>>, <<1>>>>,
              <<<<1, 9, 2>>, <<1, 6, 8>>, <<2, 5, 5>>, <<2>>>>}
UdpPorts == {0, 4789, 65535}
Vnis == {0, 100, 2147483647}
FieldIds == {1, 16909060, 2147483647}

\* the largest count the one-byte field_count can carry
MaxCount == 255
LongFieldLists == {[i \in 1..n |-> 1] : n \in {MaxCount, MaxCount + 1}}

NewActions ==
    {NoviActionPushVxlan_init(es, ed, is, id, u, v) :
        es \in MacAddrs, ed \in MacAddrs, is \in IPv4Addrs, id \in IPv4Addrs,
        u \in UdpPorts, v \in Vnis}
    \cup {NoviActionHashFieldsSym_init(f) : f \in SeqsUpTo(FieldIds, MaxFields) \cup LongFieldLists}

\* raw buffers as they come from the switch
RawBytes == {0, 1, 2}
RawSubtypes == {NOVI_ACTION_PUSH_TUNNEL, NOVI_ACTION_HASH_FIELDS_SYM, 9, 263}
RawBuffers ==
    {<<c, 0>> \o ToBytes(t, 2) \o r :
        c \in {customer, 0}, t \in RawSubtypes, r \in SeqsUpTo(RawBytes, MaxRest)}
    \cup SeqsUpTo({0, 7}, 3)

CallerBufs == {[i \in 1..n |-> 170] : n \in 0..MaxBuf}

InitBinderBound ==
    LET r == generate(EmptyDict, 1)
    IN  /\ ofpp = [c \in Contexts |-> IF c = TestContext THEN r.val.attrs ELSE EmptyDict]
        /\ subtypes = DictSet(EmptyDict, 1, r.val.d)
        /\ ngen = 1
        /\ last = [op |-> "generate", ctx |-> TestContext, cls |-> Class("NoviAction", 1),
                   n |-> 0, failed |-> FALSE]

\* the caller constructs an action
InitNew ==
    /\ \E a \in NewActions : IsOk(a) /\ act = a.val
    /\ nmut = 0 /\ wire = NoneVal /\ res = NoneVal /\ out = NoneVal
    /\ arg = NoArg /\ buf = NoneVal
    /\ pc = "new"

\* the protocol layer hands over the body of an experimenter action
InitReceived ==
    /\ act = NoObject
    /\ \E b \in RawBuffers : wire = Ok(b)
    /\ nmut = 0 /\ res = NoneVal /\ out = NoneVal /\ arg = NoArg /\ buf = NoneVal
    /\ pc = "received"

Init == InitBinderBound /\ (InitNew \/ InitReceived)

IsHash(a) == a.cls = "NoviActionHashFieldsSym"
IsVxlan(a) == a.cls = "NoviActionPushVxlan"

\* act.fields.append(f): the list is the one __init__ stored
AppendField(f) ==
    /\ pc = "new" /\ IsHash(act)
    /\ nmut < MaxMutations
    /\ act' = SetAttrs(act, [fields |-> Append(act.fields, f)])
    /\ nmut' = nmut + 1
    /\ UNCHANGED <<binderVars, wire, res, out, arg, buf, pc>>

\* del act.fields[i], for any index of the list
RemoveField ==
    /\ pc = "new" /\ IsHash(act)
    /\ nmut < MaxMutations
    /\ \E i \in 1..Len(act.fields) :
          act' = SetAttrs(act, [fields |-> SubSeq(act.fields, 1, i - 1)
                                            \o SubSeq(act.fields, i + 1, Len(act.fields))])
    /\ nmut' = nmut + 1
    /\ UNCHANGED <<binderVars, wire, res, out, arg, buf, pc>>

\* wire = act.serialize_body()
SerializeBody ==
    /\ pc = "new"
    /\ wire' = serialize_body(act)
    /\ pc' = "serialized"
    /\ UNCHANGED <<binderVars, act, nmut, res, out, arg, buf>>

\* res = NoviAction.parse(wire)
Parse ==
    /\ pc \in {"serialized", "received"}
    /\ IsOk(wire)
    /\ res' = NoviAction_parse(Registry(TestContext), wire.val)
    /\ pc' = "parsed"
    /\ UNCHANGED <<binderVars, act, nmut, wire, out, arg, buf>>

\* out = res.serialize_body(); an exception of parse propagates
ReSerialize ==
    /\ pc = "parsed"
    /\ out' = IF IsErr(res) THEN res ELSE serialize_body(res.val)
    /\ pc' = "reserialized"
    /\ UNCHANGED <<binderVars, act, nmut, wire, res, arg, buf>>

\* act.serialize(b, offset)
Serialize(b, offset) ==
    /\ pc = "new"
    /\ arg' = [buf |-> b, offset |-> offset]
    /\ buf' = NoviAction_serialize(act, b, offset)
    /\ pc' = "written"
    /\ UNCHANGED <<binderVars, act, nmut, wire, res, out>>

Next ==
    \/ \E f \in FieldIds : AppendField(f)
    \/ RemoveField
    \/ SerializeBody
    \/ Parse
    \/ ReSerialize
    \/ \E b \in CallerBufs : \E offset \in 0..Len(b) : Serialize(b, offset)

Spec == Init /\ [][Next]_vars

(***************************************************************************)
(* Properties                                                              *)
(***************************************************************************)
\* the parts of a received buffer
WireSubtype == FromBytes(Slice(wire.val, 2, 4))
WireRest == Slice(wire.val, 4, Len(wire.val))
Received == act = NoObject /\ IsOk(wire)
Unregistered == Len(wire.val) >= 4 /\ WireSubtype \notin DOMAIN Registry(TestContext)

\* C1: parsing a buffer of at least 4 bytes whose subtype is not registered
\* returns a NoviActionUnknown carrying that subtype and, as its payload, exactly
\* the bytes after the 4-byte header; it never ends in an error.
UnknownFallback ==
    (pc = "parsed" /\ Received /\ Unregistered) =>
        /\ IsOk(res)
        /\ res.val.cls = "NoviActionUnknown"
        /\ res.val.novi_action_type = WireSubtype
        /\ res.val.data = Ok(WireRest)

\* C2: register with a codec whose subtype is already bound to a different codec
\* fails, and the registry keeps the codec bound first.
RegisterRejectsConflict ==
    [][\A c \in Contexts :
          (/\ last'.op = "register" /\ last'.n = last.n + 1 /\ last'.ctx = c
           /\ ClassSubtype(last'.cls.name) \in DOMAIN Registry(c)
           /\ Registry(c)[ClassSubtype(last'.cls.name)] # last'.cls)
          => /\ last'.failed
             /\ Registry(c)'[ClassSubtype(last'.cls.name)]
                    = Registry(c)[ClassSubtype(last'.cls.name)]]_vars

\* the fields of a tunnel-push action
VxlanFields(a) == <<a.eth_src, a.eth_dst, a.ipv4_src, a.ipv4_dst, a.udp_src, a.vni>>

\* C3: for every tunnel-push action and every symmetric-hash-fields action of
\* 0..255 fields, parse(serialize_body()) returns an action of the same class
\* whose fields equal those of the original, in the same order.
RoundTrip ==
    (pc = "parsed" /\ act # NoObject) =>
        /\ IsOk(res)
        /\ res.val.cls = act.cls
        /\ IsVxlan(act) => VxlanFields(res.val) = VxlanFields(act)
        /\ IsHash(act) => res.val.fields = act.fields

\* C3 witness: the tunnel-push action of the example vector came back from parse
RoundTripWitness ==
    /\ pc = "parsed" /\ act # NoObject /\ IsVxlan(act) /\ IsOk(res)
    /\ IsVxlan(res.val)
    /\ res.val.eth_src = <<10, 10, 11, 11, 12, 12, 13, 13, 14, 14, 15, 15>>
    /\ res.val.eth_dst = <<1, 1, 2, 2, 3, 3, 4, 4, 5, 5, 6, 6>>
    /\ res.val.ipv4_dst = <<<<1, 9, 2>>, <<1, 6, 8>>, <<2, 5, 5>>, <<2>>>>
    /\ res.val.udp_src = 4789 /\ res.val.vni = 100

\* C4: the unknown action obtained for a buffer with an unregistered subtype
\* serializes its body to exactly that buffer: vendor header, then the rest.
UnknownRoundTrip ==
    (pc = "reserialized" /\ Received /\ Unregistered) =>
        /\ IsOk(out)
        /\ out.val = wire.val

HashCountChecked ==
    (/\ pc = "parsed" /\ Received /\ Len(wire.val) >= 4
     /\ WireSubtype = NOVI_ACTION_HASH_FIELDS_SYM
     /\ (WireRest = <<>> \/ Len(WireRest) < 1 + 4 * WireRest[1]))
    => IsErr(res)

\* the experimenter action header of an action
ActionHeader(a) == OFPActionExperimenter_serialize(a, <<>>, 0)

\* C7: after serialize(buf, offset) the bytes of buf from offset onward are the
\* experimenter action header immediately followed by serialize_body(), and the
\* bytes before offset are unchanged.
SerializeContiguous ==
    (pc = "written" /\ IsOk(serialize_body(act))) =>
        LET enc == ActionHeader(act) \o serialize_body(act).val
        IN  /\ IsOk(buf)
            /\ Len(buf.val) >= arg.offset + Len(enc)
            /\ SubSeq(buf.val, 1, arg.offset) = SubSeq(arg.buf, 1, arg.offset)
            /\ SubSeq(buf.val, arg.offset + 1, arg.offset + Len(enc)) = enc

\* C8: a second generate call for a context already bound leaves the classes
\* installed on it and the registry they dispatch through as the first call
\* made them.
GenerateIdempotent ==
    [][\A c \in Contexts :
          (last'.op = "generate" /\ ngen' = ngen + 1 /\ last'.ctx = c /\ Bound(c))
          => /\ ofpp'[c] = ofpp[c]
             /\ Registry(c)' = Registry(c)]_vars

\* C9: however the field list was changed after construction, serialize_body
\* returns a multiple of 8 bytes and pad_len and len are those the formula gives
\* for the current number of fields.
HashPaddingTracksFields ==
    (pc = "serialized" /\ IsHash(act) /\ IsOk(wire)) =>
        LET n == Len(act.fields)
        IN  /\ Len(wire.val) % 8 = 0
            /\ act.len % 8 = 0 /\ act.len >= 13 + 4 * n /\ act.len < 13 + 4 * n + 8
            /\ act.pad_len = act.len - (13 + 4 * n)

VendorHeader(t) == <<customer, reserved>> \o ToBytes(t, 2)

\* what C10 says apart from the size of the body
VxlanLayout(bodyLen) ==
    /\ (pc = "serialized" /\ IsVxlan(act)) =>
          /\ IsOk(wire)
          /\ SubSeq(wire.val, 1, 4) = VendorHeader(2)
          /\ Len(wire.val) - 4 = bodyLen
          /\ wire.val[5] = 0 /\ wire.val[6] = 1
          /\ act.len = 40
    /\ (pc = "written" /\ IsVxlan(act) /\ arg.offset = Len(arg.buf)) =>
          /\ IsOk(buf)
          /\ Len(buf.val) - arg.offset = act.len

\* C10 as stated: the vendor header is followed by a body of exactly 36 bytes
\* starting 0x00 0x01, and len is 40, the number of bytes encoded for the action.
VxlanBody36 == VxlanLayout(36)

\* C10 amended: the vendor header is followed by a body of exactly 28 bytes
\* starting 0x00 0x01, and len is 40, the number of bytes encoded for the action
\* (8 of the experimenter action header, 4 of the vendor header, 28 of the body).
VxlanBody28 == VxlanLayout(28)

\* C10 witness: the example vector was serialized
VxlanBodyWitness ==
    /\ pc = "serialized" /\ IsVxlan(act) /\ IsOk(wire)
    /\ act.udp_src = 4789 /\ act.vni = 100
    /\ SubSeq(wire.val, 27, 32) = <<18, 181, 0, 0, 0, 100>>

====
